---- MODULE Spec2Model ----
(***************************************************************************)
(* The streamed chat of frontend/landing/src/App.jsx: the App component's  *)
(* state (messages, isLoading, input, the streamingAssistantIndex ref),    *)
(* the sendMessage coroutine with its read loop, line decoder and event    *)
(* dispatcher, and React's queue of state updaters.                        *)
(*                                                                         *)
(* Text is a sequence of atoms, concatenation is \o.  The wire is a        *)
(* sequence of bytes; "LF" is the line terminator, "SP" a space, "H" "T"   *)
(* the two bytes of one multi-byte character.                              *)
(***************************************************************************)
EXTENDS Integers, Sequences, FiniteSets, TLC

\* ---------------------------------------------------------------- bounds
\* Total traffic of a run: every accepted request costs one unit and every
\* line the backend puts on the wire costs one unit.
MaxTraffic == 3

\* Number of lines of a message content handed to the markdown parser.
MaxMdLines == 5

\* ------------------------------------------------------- program constants
GREETING == <<"Hey there! Ask me anything about the GitBook docs we just ingested.">>
STREAMING_PLACEHOLDER == <<"Synthesizing context...">>
NO_RESULT_TEXT == <<"I couldn't find anything for that query.">>
SEARCH_FAILED_TEXT == <<"Search failed. Check the FastAPI logs.">>
DEFAULT_ERROR_TEXT == <<"Chat failed. Please retry.">>
CHAT_FAILED_TEXT == <<"Chat failed.">>
NO_STREAMING_TEXT == <<"Streaming response is not supported in this browser.">>

\* ------------------------------------------------------------ the inputs
\* What the user can have typed into the input box.
Inputs == { <<>>, <<"SP">>, <<"SP", "q", "SP">> }

\* Bodies of a non-success response.
ErrorBodies == { <<>>, <<"Internal Server Error">> }

\* The lines the backend can put on the wire, as bytes (without terminator).
ChunkLine == <<"c", "H", "T">>      \* {"type":"answer_chunk","delta":"U+00E9"}
SentinelLine == <<"c", "S">>        \* {"type":"answer_chunk","delta":"Synthesizing context..."}
ReferencesLine == <<"SP", "r", "x">> \* {"type":"references","references":["x"]}, indented
ErrorLine == <<"e", "m">>           \* {"type":"error","message":"m"}
NullLine == <<"n">>                 \* null
GarbageLine == <<"z">>              \* not JSON
NoTypeLine == <<"u">>               \* {}

LineTexts ==
    { ChunkLine, SentinelLine, ReferencesLine, ErrorLine,
      NullLine, GarbageLine, NoTypeLine }

\* ------------------------------------------------------------- sequences
SeqsUpTo(S, n) == UNION { [1..k -> S] : k \in 0..n }

RECURSIVE Flatten(_)
Flatten(ss) == IF ss = <<>> THEN <<>> ELSE Head(ss) \o Flatten(Tail(ss))

IsWhitespace(ch) == ch \in {"SP"}

\* String.prototype.trim
RECURSIVE TrimLeft(_)
TrimLeft(s) ==
    IF s # <<>> /\ IsWhitespace(Head(s)) THEN TrimLeft(Tail(s)) ELSE s

\* Mutant of TrimRight: trailing whitespace is kept.
TrimRightNothing(s) == s

RECURSIVE TrimRight(_)
TrimRight(s) ==
    IF s # <<>> /\ IsWhitespace(s[Len(s)])
    THEN TrimRight(SubSeq(s, 1, Len(s) - 1))
    ELSE s

\* Mutant of Trim: the text is used as typed.
TrimNothing(s) == s

Trim(s) == TrimRight(TrimLeft(s))

\* String.prototype.split('\n'): always at least one segment.
RECURSIVE SplitLines(_)
SplitLines(s) ==
    IF \A i \in 1..Len(s) : s[i] # "LF"
    THEN << s >>
    ELSE LET i == CHOOSE j \in 1..Len(s) :
                    s[j] = "LF" /\ \A k \in 1..(j - 1) : s[k] # "LF"
         IN  << SubSeq(s, 1, i - 1) >> \o SplitLines(SubSeq(s, i + 1, Len(s)))

\* The wire of a response: the lines, each but possibly the last followed by LF.
RECURSIVE JoinLines(_, _)
JoinLines(ls, terminated) ==
    IF ls = <<>> THEN <<>>
    ELSE IF Len(ls) = 1
         THEN Head(ls) \o (IF terminated THEN <<"LF">> ELSE <<>>)
         ELSE Head(ls) \o <<"LF">> \o JoinLines(Tail(ls), terminated)

\* ------------------------------------------------------------ TextDecoder
\* decoder.decode(value, { stream: true }): "H" "T" is one character; a lead
\* byte at the end of a buffer is carried to the next call; a malformed
\* sequence decodes to the replacement character.
RECURSIVE DecodeFrom(_, _)
DecodeFrom(carry, bytes) ==
    IF bytes = <<>> THEN [text |-> <<>>, carry |-> carry]
    ELSE LET b == Head(bytes) IN
         IF carry
         THEN IF b = "T"
              THEN LET r == DecodeFrom(FALSE, Tail(bytes))
                   IN  [text |-> <<"U+00E9">> \o r.text, carry |-> r.carry]
              ELSE LET r == DecodeFrom(FALSE, bytes)
                   IN  [text |-> <<"\\uFFFD">> \o r.text, carry |-> r.carry]
         ELSE IF b = "H" THEN DecodeFrom(TRUE, Tail(bytes))
              ELSE LET r == DecodeFrom(FALSE, Tail(bytes))
                   IN  [text |-> << (IF b = "T" THEN "\\uFFFD" ELSE b) >> \o r.text,
                        carry |-> r.carry]

\* ------------------------------------------------------------- JSON.parse
\* kind "SyntaxError": JSON.parse throws; "null": the value null; "object":
\* an object whose fields are type, delta, references, message (a missing
\* field is "undefined" / the empty text / the empty list).
JSONParse(line) ==
    IF line = <<"c", "U+00E9">>
    THEN [kind |-> "object", type |-> "answer_chunk", delta |-> <<"U+00E9">>,
          references |-> <<>>, message |-> <<>>]
    ELSE IF line = <<"c", "S">>
    THEN [kind |-> "object", type |-> "answer_chunk", delta |-> STREAMING_PLACEHOLDER,
          references |-> <<>>, message |-> <<>>]
    ELSE IF line = <<"r", "x">>
    THEN [kind |-> "object", type |-> "references", delta |-> <<>>,
          references |-> <<"x">>, message |-> <<>>]
    ELSE IF line = <<"e", "m">>
    THEN [kind |-> "object", type |-> "error", delta |-> <<>>,
          references |-> <<>>, message |-> <<"m">>]
    ELSE IF line = <<"u">>
    THEN [kind |-> "object", type |-> "undefined", delta |-> <<>>,
          references |-> <<>>, message |-> <<>>]
    ELSE IF line = <<"n">>
    THEN [kind |-> "null", type |-> "undefined", delta |-> <<>>,
          references |-> <<>>, message |-> <<>>]
    ELSE [kind |-> "SyntaxError", type |-> "undefined", delta |-> <<>>,
          references |-> <<>>, message |-> <<>>]

\* ------------------------------------------------------------------ state
VARIABLES
    root,                     \* how the page was mounted: "legacy" or "concurrent"
    input,                    \* useState(''), the text of the input box
    messages,                 \* useState([greeting]), the conversation as rendered
    isLoading,                \* useState(false), as rendered
    streamingAssistantIndex,  \* useRef(-1).current, a 0-based index or -1
    pending,                  \* state updates queued by setMessages / setLoading
    pc,                       \* where sendMessage is suspended
    wire,                     \* the bytes of the response body
    pos,                      \* how many of them reader.read() has returned
    decoderCarry,             \* TextDecoder holds an incomplete character
    buffer,                   \* let buffer
    receivedChunk,            \* let receivedChunk
    receivedError,            \* let receivedError
    shouldAbort,              \* let shouldAbort
    delivered,                \* the arguments of the calls of processEventLine
    cancelled,                \* reader.cancel() was called
    caught,                   \* the message of the error the catch block caught
    lastSubmit,               \* how the last call of sendMessage returned
    requests,                 \* number of fetch calls issued
    traffic,                  \* requests issued plus lines put on the wire
    markdown,                 \* a message content handed to renderAssistantMessage
    sections                  \* what parseAssistantSections made of it

\* The variables of the markdown display.
parseVars == << markdown, sections >>

vars ==
    << root, parseVars, input, messages, isLoading, streamingAssistantIndex, pending, pc,
       wire, pos, decoderCarry, buffer, receivedChunk, receivedError,
       shouldAbort, delivered, cancelled, caught, lastSubmit, requests, traffic >>

\* The variables of one request's stream (the locals of the try block).
streamVars ==
    << wire, pos, decoderCarry, buffer, receivedChunk, receivedError,
       shouldAbort, delivered, cancelled >>

NoError == <<"(nothing caught)">>

\* --------------------------------------------------------- message records
\* { ...msg, [field]: value }
Spread(msg, field, value) ==
    [f \in (DOMAIN msg) \cup {field} |-> IF f = field THEN value ELSE msg[f]]

\* The mutator appendAssistantDelta passes to patchAssistantMessage.
DeltaMutator(msg, delta) ==
    LET base == IF msg.content = STREAMING_PLACEHOLDER THEN <<>> ELSE msg.content
    IN  Spread(msg, "content", base \o delta)

\* The mutator applyAssistantReferences passes to patchAssistantMessage.
ReferencesMutator(msg, refs) == Spread(msg, "references", refs)

\* The mutator overwriteAssistant passes to patchAssistantMessage.
OverwriteMutator(msg, text) ==
    Spread(Spread(msg, "content", text), "references", <<>>)

\* ----------------------------------------------------------- state updates
\* A queued update: a messages updater built by patchAssistantMessage (kind
\* "delta", "references", "overwrite"), a messages update whose result was
\* computed when it was queued ("eager", state), or setLoading(flag).
Update(kind, text, refs) ==
    [kind |-> kind, text |-> text, refs |-> refs, state |-> <<>>, flag |-> FALSE]

EagerUpdate(state) ==
    [kind |-> "eager", text |-> <<>>, refs |-> <<>>, state |-> state, flag |-> FALSE]

LoadingUpdate(flag) ==
    [kind |-> "loading", text |-> <<>>, refs |-> <<>>, state |-> <<>>, flag |-> flag]

Mutate(u, msg) ==
    CASE u.kind = "delta" -> DeltaMutator(msg, u.text)
      [] u.kind = "references" -> ReferencesMutator(msg, u.refs)
      [] u.kind = "overwrite" -> OverwriteMutator(msg, u.text)

\* Mutant of RunUpdater: every assistant message is patched, whatever the ref.
RunUpdaterEverywhere(u, prev, index) ==
    [i \in 1..Len(prev) |->
        IF prev[i].role = "assistant" THEN Mutate(u, prev[i]) ELSE prev[i]]

\* prev.map((msg, idx) => (idx === streamingAssistantIndex.current ? mutator(msg) : msg)),
\* with the value the ref has when the updater runs.
RunUpdater(u, prev, index) ==
    [i \in 1..Len(prev) |-> IF i - 1 = index THEN Mutate(u, prev[i]) ELSE prev[i]]

\* setMessages(updater) called from sendMessage after an await.  A legacy root
\* renders at once.  A concurrent root queues the update for the next render;
\* when the component has no update pending (clean) React runs the updater at
\* once and queues its result.
setMessages(s, u, clean) ==
    IF root = "legacy"
    THEN [s EXCEPT !.messages = RunUpdater(u, @, streamingAssistantIndex)]
    ELSE IF s.pending = <<>> /\ clean
         THEN [s EXCEPT !.pending =
                   << EagerUpdate(RunUpdater(u, s.messages, streamingAssistantIndex)) >>]
         ELSE [s EXCEPT !.pending = Append(@, u)]

patchAssistantMessage(s, u, clean) ==
    IF streamingAssistantIndex < 0 THEN s ELSE setMessages(s, u, clean)

appendAssistantDelta(s, delta, clean) ==
    patchAssistantMessage(s, Update("delta", delta, <<>>), clean)

applyAssistantReferences(s, refs, clean) ==
    patchAssistantMessage(s, Update("references", <<>>, refs), clean)

overwriteAssistant(s, text, clean) ==
    patchAssistantMessage(s, Update("overwrite", text, <<>>), clean)

\* One render of a concurrent root: the queued updates in order, each updater
\* reading the ref as it is now.
RECURSIVE RenderQueue(_, _, _)
RenderQueue(queue, msgs, loading) ==
    IF queue = <<>> THEN [messages |-> msgs, isLoading |-> loading]
    ELSE LET u == Head(queue) IN
         CASE u.kind = "eager" -> RenderQueue(Tail(queue), u.state, loading)
           [] u.kind = "loading" -> RenderQueue(Tail(queue), msgs, u.flag)
           [] OTHER ->
                RenderQueue(Tail(queue),
                            RunUpdater(u, msgs, streamingAssistantIndex), loading)

\* --------------------------------------------------------- the dispatcher
\* The state a synchronous stretch of sendMessage works on.
Locals ==
    [messages |-> messages, pending |-> pending,
     receivedChunk |-> receivedChunk, receivedError |-> receivedError,
     shouldAbort |-> shouldAbort, delivered |-> delivered, threw |-> FALSE]

\* event.delta || '' and event.message || 'Chat failed. Please retry.'
OrElse(value, default) == IF value = <<>> THEN default ELSE value

processEventLine(s, line, clean) ==
    LET s1 == [s EXCEPT !.delivered = Append(@, line)] IN
    IF line = <<>> \/ s1.shouldAbort THEN s1
    ELSE LET event == JSONParse(line) IN
         IF event.kind = "SyntaxError" THEN s1
         ELSE IF event.kind = "null" THEN [s1 EXCEPT !.threw = TRUE]
         ELSE CASE event.type = "answer_chunk" ->
                     appendAssistantDelta([s1 EXCEPT !.receivedChunk = TRUE],
                                          OrElse(event.delta, <<>>), clean)
                [] event.type = "references" ->
                     applyAssistantReferences(s1, event.references, clean)
                [] event.type = "error" ->
                     [overwriteAssistant([s1 EXCEPT !.receivedError = TRUE],
                                         OrElse(event.message, DEFAULT_ERROR_TEXT),
                                         clean)
                        EXCEPT !.shouldAbort = TRUE]
                [] OTHER -> s1

\* lines.forEach((line) => processEventLine(line.trim())); an exception ends it.
RECURSIVE ForEachLine(_, _, _)
ForEachLine(lines, s, clean) ==
    IF lines = <<>> \/ s.threw THEN s
    ELSE ForEachLine(Tail(lines), processEventLine(s, Trim(Head(lines)), clean), clean)

\* The statements after the read loop, up to the end of the try block.
AfterLoop(s, buf, clean) ==
    LET s1 == IF ~s.shouldAbort /\ Trim(buf) # <<>>
              THEN processEventLine(s, Trim(buf), clean)
              ELSE s
    IN  IF s1.threw THEN s1
        ELSE IF ~s1.receivedChunk /\ ~s1.receivedError
             THEN overwriteAssistant(s1, NO_RESULT_TEXT, clean)
             ELSE s1

\* ------------------------------------------------------------ sendMessage
\* Mutant of Busy: sendMessage without its isLoading guard.
BusyNever == FALSE

\* if (isLoading) return;
Busy == isLoading

\* Mutant of NextAssistantIndex: an index one too small, the user entry.
NextAssistantIndexOffByOne(nextMessages) == Len(nextMessages) - 2

\* streamingAssistantIndex.current = nextMessages.length - 1
NextAssistantIndex(nextMessages) == Len(nextMessages) - 1

\* Mutant of Remainder: the unterminated rest is dropped instead of kept.
RemainderDropped(segments) == <<>>

\* buffer = lines.pop() || ''
Remainder(segments) == segments[Len(segments)]

\* Mutant of AbortsRead: the loop goes on reading after an error event.
AbortsReadNever(s) == FALSE

\* if (shouldAbort) { await reader.cancel()...; break; }
AbortsRead(s) == s.shouldAbort

\* The locals of the try block as sendMessage leaves them.
KeepLocals(s) ==
    /\ receivedChunk' = s.receivedChunk
    /\ receivedError' = s.receivedError
    /\ shouldAbort' = s.shouldAbort
    /\ delivered' = s.delivered

\* Mutant of Finally: the ref is not reset.
FinallyKeepsIndex(s) ==
    /\ messages' = s.messages
    /\ pending' = IF root = "legacy" THEN s.pending
                  ELSE Append(s.pending, LoadingUpdate(FALSE))
    /\ isLoading' = IF root = "legacy" THEN FALSE ELSE isLoading
    /\ UNCHANGED streamingAssistantIndex
    /\ pc' = "idle"

\* Mutant of Finally: the loading flag is not cleared.
FinallyKeepsLoading(s) ==
    /\ messages' = s.messages
    /\ pending' = s.pending
    /\ UNCHANGED isLoading
    /\ streamingAssistantIndex' = -1
    /\ pc' = "idle"

\* finally { setLoading(false); streamingAssistantIndex.current = -1; }
Finally(s) ==
    /\ messages' = s.messages
    /\ pending' = IF root = "legacy" THEN s.pending
                  ELSE Append(s.pending, LoadingUpdate(FALSE))
    /\ isLoading' = IF root = "legacy" THEN FALSE ELSE isLoading
    /\ streamingAssistantIndex' = -1
    /\ pc' = "idle"

\* catch (error) { overwriteAssistant('Search failed. Check the FastAPI logs.'); }
\* and the finally block.
CatchFinally(s, error, clean) ==
    /\ caught' = error
    /\ Finally(overwriteAssistant(s, SEARCH_FAILED_TEXT, clean))

\* The try block ended: with an exception thrown by the dispatcher, or normally.
EndOfTry(s, clean) ==
    IF s.threw
    THEN CatchFinally(s, <<"TypeError">>, clean)
    ELSE caught' = NoError /\ Finally(s)

Init ==
    /\ root \in {"legacy", "concurrent"}
    /\ input = <<>>
    /\ messages = << [role |-> "assistant", content |-> GREETING, references |-> <<>>] >>
    /\ isLoading = FALSE
    /\ streamingAssistantIndex = -1
    /\ pending = <<>>
    /\ pc = "idle"
    /\ wire = <<>>
    /\ pos = 0
    /\ decoderCarry = FALSE
    /\ buffer = <<>>
    /\ receivedChunk = FALSE
    /\ receivedError = FALSE
    /\ shouldAbort = FALSE
    /\ delivered = <<>>
    /\ cancelled = FALSE
    /\ caught = NoError
    /\ lastSubmit = "none"
    /\ requests = 0
    /\ traffic = 0
    /\ markdown = <<>>
    /\ sections = <<>>

\* onChange of the input box, which is disabled while isLoading.
SetInput(v) ==
    /\ ~isLoading
    /\ v # input
    /\ input' = v
    /\ UNCHANGED << root, parseVars, messages, isLoading, streamingAssistantIndex, pending, pc,
                    streamVars, caught, lastSubmit, requests, traffic >>

\* handleSubmit -> sendMessage, up to the await of fetch.  The submit event is
\* a discrete event: React renders the three updates before it returns, which
\* runs the append updater and so assigns the ref.
Submit ==
    LET trimmed == Trim(input) IN
    IF Busy
    THEN /\ lastSubmit' = "busy"
         /\ UNCHANGED << root, parseVars, input, messages, isLoading, streamingAssistantIndex,
                         pending, pc, streamVars, caught, requests, traffic >>
    ELSE IF trimmed = <<>>
    THEN /\ lastSubmit' = "empty"
         /\ UNCHANGED << root, parseVars, input, messages, isLoading, streamingAssistantIndex,
                         pending, pc, streamVars, caught, requests, traffic >>
    ELSE /\ traffic < MaxTraffic
         /\ LET userEntry == [role |-> "user", content |-> trimmed]
                assistantEntry == [role |-> "assistant", content |-> STREAMING_PLACEHOLDER,
                                   references |-> <<>>]
                nextMessages == messages \o << userEntry, assistantEntry >>
            IN  /\ messages' = nextMessages
                /\ streamingAssistantIndex' = NextAssistantIndex(nextMessages)
         /\ input' = <<>>
         /\ isLoading' = TRUE
         /\ pc' = "fetch"
         /\ lastSubmit' = "accepted"
         /\ requests' = requests + 1
         /\ traffic' = traffic + 1
         /\ wire' = <<>>
         /\ pos' = 0
         /\ decoderCarry' = FALSE
         /\ buffer' = <<>>
         /\ receivedChunk' = FALSE
         /\ receivedError' = FALSE
         /\ shouldAbort' = FALSE
         /\ delivered' = <<>>
         /\ cancelled' = FALSE
         /\ caught' = NoError
         /\ UNCHANGED << root, parseVars, pending >>

\* await fetch(...) rejects: the catch block and the finally block.
FetchRejects(clean) ==
    /\ pc = "fetch"
    /\ CatchFinally(Locals, <<"TypeError: Failed to fetch">>, clean)
    /\ KeepLocals(Locals)
    /\ UNCHANGED << root, parseVars, input, wire, pos, decoderCarry, buffer, cancelled,
                    lastSubmit, requests, traffic >>

\* await fetch(...) resolves with !response.ok: sendMessage awaits response.text().
FetchNotOk ==
    /\ pc = "fetch"
    /\ pc' = "text"
    /\ UNCHANGED << root, parseVars, input, messages, isLoading, streamingAssistantIndex, pending,
                    streamVars, caught, lastSubmit, requests, traffic >>

\* response.text() resolves: throw new Error(errorText || 'Chat failed.').
TextResolves(errorText, clean) ==
    /\ pc = "text"
    /\ CatchFinally(Locals, OrElse(errorText, CHAT_FAILED_TEXT), clean)
    /\ KeepLocals(Locals)
    /\ UNCHANGED << root, parseVars, input, wire, pos, decoderCarry, buffer, cancelled,
                    lastSubmit, requests, traffic >>

\* response.text() rejects.
TextRejects(clean) ==
    /\ pc = "text"
    /\ CatchFinally(Locals, <<"TypeError: body stream error">>, clean)
    /\ KeepLocals(Locals)
    /\ UNCHANGED << root, parseVars, input, wire, pos, decoderCarry, buffer, cancelled,
                    lastSubmit, requests, traffic >>

\* await fetch(...) resolves with response.ok and no response.body.
FetchOkNoBody(clean) ==
    /\ pc = "fetch"
    /\ CatchFinally(Locals, NO_STREAMING_TEXT, clean)
    /\ KeepLocals(Locals)
    /\ UNCHANGED << root, parseVars, input, wire, pos, decoderCarry, buffer, cancelled,
                    lastSubmit, requests, traffic >>

\* await fetch(...) resolves with response.ok and a body: the backend will
\* send these lines; sendMessage creates decoder and locals and awaits read().
FetchOk(lines, terminated) ==
    /\ pc = "fetch"
    /\ traffic + Len(lines) <= MaxTraffic
    /\ wire' = JoinLines(lines, terminated)
    /\ traffic' = traffic + Len(lines)
    /\ pc' = "read"
    /\ UNCHANGED << root, parseVars, input, messages, isLoading, streamingAssistantIndex, pending,
                    pos, decoderCarry, buffer, receivedChunk, receivedError,
                    shouldAbort, delivered, cancelled, caught, lastSubmit, requests >>

\* reader.read() resolves with the next k bytes: one pass of the loop body.
ReadChunk(k, clean) ==
    /\ pc = "read"
    /\ k >= 1
    /\ pos + k <= Len(wire)
    /\ LET value == SubSeq(wire, pos + 1, pos + k)
           decoded == DecodeFrom(decoderCarry, value)
           segments == SplitLines(buffer \o decoded.text)
           lines == SubSeq(segments, 1, Len(segments) - 1)
           s == ForEachLine(lines, Locals, clean)
       IN  /\ pos' = pos + k
           /\ decoderCarry' = decoded.carry
           /\ buffer' = Remainder(segments)
           /\ KeepLocals(s)
           /\ IF s.threw
              THEN /\ EndOfTry(s, clean)
                   /\ UNCHANGED cancelled
              ELSE IF AbortsRead(s)
              THEN /\ cancelled' = TRUE
                   /\ pc' = "cancel"
                   /\ messages' = s.messages
                   /\ pending' = s.pending
                   /\ UNCHANGED << isLoading, streamingAssistantIndex, caught >>
              ELSE /\ pc' = "read"
                   /\ messages' = s.messages
                   /\ pending' = s.pending
                   /\ UNCHANGED << isLoading, streamingAssistantIndex, caught, cancelled >>
    /\ UNCHANGED << root, parseVars, input, wire, lastSubmit, requests, traffic >>

\* reader.read() resolves with done: the rest of the try block.
ReadDone(clean) ==
    /\ pc = "read"
    /\ pos = Len(wire)
    /\ LET s == AfterLoop(Locals, buffer, clean)
       IN  /\ KeepLocals(s)
           /\ EndOfTry(s, clean)
    /\ UNCHANGED << root, parseVars, input, wire, pos, decoderCarry, buffer, cancelled,
                    lastSubmit, requests, traffic >>

\* reader.read() rejects (the connection drops).
ReadRejects(clean) ==
    /\ pc = "read"
    /\ CatchFinally(Locals, <<"TypeError: network error">>, clean)
    /\ KeepLocals(Locals)
    /\ UNCHANGED << root, parseVars, input, wire, pos, decoderCarry, buffer, cancelled,
                    lastSubmit, requests, traffic >>

\* await reader.cancel().catch(() => {}) settles; break; the rest of the try block.
CancelSettles(clean) ==
    /\ pc = "cancel"
    /\ LET s == AfterLoop(Locals, buffer, clean)
       IN  /\ KeepLocals(s)
           /\ EndOfTry(s, clean)
    /\ UNCHANGED << root, parseVars, input, wire, pos, decoderCarry, buffer, cancelled,
                    lastSubmit, requests, traffic >>

\* React renders the queued updates of a concurrent root.
Render ==
    /\ root = "concurrent"
    /\ pending # <<>>
    /\ LET r == RenderQueue(pending, messages, isLoading)
       IN  /\ messages' = r.messages
           /\ isLoading' = r.isLoading
    /\ pending' = <<>>
    /\ UNCHANGED << root, parseVars, input, streamingAssistantIndex, pc, streamVars, caught,
                    lastSubmit, requests, traffic >>

Next ==
    \/ \E v \in Inputs : SetInput(v)
    \/ Submit
    \/ \E clean \in BOOLEAN : FetchRejects(clean)
    \/ FetchNotOk
    \/ \E errorText \in ErrorBodies, clean \in BOOLEAN : TextResolves(errorText, clean)
    \/ \E clean \in BOOLEAN : TextRejects(clean)
    \/ \E clean \in BOOLEAN : FetchOkNoBody(clean)
    \/ \E lines \in SeqsUpTo(LineTexts, MaxTraffic - traffic), terminated \in BOOLEAN :
           FetchOk(lines, terminated)
    \/ \E k \in 1..(Len(wire) - pos), clean \in BOOLEAN : ReadChunk(k, clean)
    \/ \E clean \in BOOLEAN : ReadDone(clean)
    \/ \E clean \in BOOLEAN : ReadRejects(clean)
    \/ \E clean \in BOOLEAN : CancelSettles(clean)
    \/ Render

Spec == Init /\ [][Next]_vars

\* The steps of a request that is in flight: the transport settles a promise
\* and the continuation of sendMessage runs.
Continue ==
    \/ \E clean \in BOOLEAN : FetchRejects(clean)
    \/ FetchNotOk
    \/ \E clean \in BOOLEAN : FetchOkNoBody(clean)
    \/ \E errorText \in ErrorBodies, clean \in BOOLEAN : TextResolves(errorText, clean)
    \/ \E clean \in BOOLEAN : TextRejects(clean)
    \/ \E clean \in BOOLEAN : ReadRejects(clean)
    \/ \E clean \in BOOLEAN : ReadDone(clean)
    \/ \E clean \in BOOLEAN : CancelSettles(clean)
    \/ \E k \in 1..(Len(wire) - pos), clean \in BOOLEAN : ReadChunk(k, clean)
    \/ /\ pc = "fetch"
       /\ \E lines \in SeqsUpTo(LineTexts, MaxTraffic - traffic), terminated \in BOOLEAN :
              FetchOk(lines, terminated)

\* The program when every promise of the transport settles and React renders
\* what is scheduled.
SpecLive == Init /\ [][Next]_vars /\ WF_vars(Continue) /\ WF_vars(Render)

\* The same program mounted on a legacy root: every update renders at once.
NextLegacy ==
    \/ \E v \in Inputs : SetInput(v)
    \/ Submit
    \/ FetchRejects(FALSE)
    \/ FetchNotOk
    \/ \E errorText \in ErrorBodies : TextResolves(errorText, FALSE)
    \/ TextRejects(FALSE)
    \/ FetchOkNoBody(FALSE)
    \/ \E lines \in SeqsUpTo(LineTexts, MaxTraffic - traffic), terminated \in BOOLEAN :
           FetchOk(lines, terminated)
    \/ \E k \in 1..(Len(wire) - pos) : ReadChunk(k, FALSE)
    \/ ReadDone(FALSE)
    \/ ReadRejects(FALSE)
    \/ CancelSettles(FALSE)

InitLegacy == Init /\ root = "legacy"

SpecLegacy == InitLegacy /\ [][NextLegacy]_vars

\* ------------------------------------------------------ markdown display
\* Contents are text as above; "##" is the two characters of a heading marker,
\* "**" the two characters of an emphasis marker, "-" a hyphen.
SummaryHeading == <<"##", "SP", "Summary">>
PointOne == <<"-", "SP", "point one">>
PointTwo == <<"-", "SP", "point two">>
ReferencesHeading == <<"##", "SP", "References">>
ReferenceEntry == <<"[1]", "SP", "Guide", "SP", "EMDASH", "SP", "https://a">>
Rule == <<"-", "-", "-">>
BoldProse == <<"SP", "see", "SP", "**", "this", "**", "SP">>
BoldBullet == <<"**", "-", "SP", "a", "**">>
BoldHeading == <<"**", "##", "SP", "x", "**">>
BoldRule == <<"**", "-", "-", "-", "**">>

\* The lines a message content is made of.
MarkdownLines ==
    { SummaryHeading, PointOne, PointTwo, ReferencesHeading, ReferenceEntry,
      Rule, BoldProse, BoldBullet, BoldHeading, BoldRule }

\* String.prototype.startsWith
StartsWith(s, prefix) ==
    Len(s) >= Len(prefix) /\ SubSeq(s, 1, Len(prefix)) = prefix

\* String.prototype.slice(n), n counted in atoms
Slice(s, n) == SubSeq(s, n + 1, Len(s))

\* String.prototype.toLowerCase
ToLowerCase(s) ==
    [i \in 1..Len(s) |->
        CASE s[i] = "References" -> "references"
          [] s[i] = "Summary" -> "summary"
          [] s[i] = "Guide" -> "guide"
          [] OTHER -> s[i]]

\* const inlineClean = (text = '') => text.replace(/\*\*(.*?)\*\*/g, '$1');
\* from the left, every "**" that has a later "**" loses both markers.
RECURSIVE inlineClean(_)
inlineClean(text) ==
    IF \A i \in 1..Len(text) : text[i] # "**" THEN text
    ELSE LET open == CHOOSE i \in 1..Len(text) :
                        text[i] = "**" /\ \A k \in 1..(i - 1) : text[k] # "**"
             after == Slice(text, open)
         IN  IF \A j \in 1..Len(after) : after[j] # "**" THEN text
             ELSE LET close == CHOOSE j \in 1..Len(after) :
                                  after[j] = "**" /\ \A k \in 1..(j - 1) : after[k] # "**"
                  IN  SubSeq(text, 1, open - 1) \o SubSeq(after, 1, close - 1)
                          \o inlineClean(Slice(after, close))

\* if (current) { sections.push(current); }: current is <<>> for null.
PushCurrent(st) == st.sections \o st.current

\* The body of lines.forEach in parseAssistantSections.
ParseLine(st, rawLine) ==
    LET line == Trim(rawLine) IN
    IF line = <<>> \/ line = <<"-", "-", "-">> THEN st
    ELSE IF StartsWith(ToLowerCase(line), <<"##", "SP", "references">>)
    THEN [sections |-> PushCurrent(st), current |-> <<>>]
    ELSE IF StartsWith(line, <<"##", "SP">>)
    THEN [sections |-> PushCurrent(st),
          current |-> << [heading |-> Trim(Slice(line, 2)), body |-> <<>>] >>]
    ELSE LET current == IF st.current = <<>>
                        THEN [heading |-> <<>>, body |-> <<>>]
                        ELSE st.current[1]
             body == current.body
         IN  IF StartsWith(line, <<"-", "SP">>)
             THEN LET bullet == inlineClean(Trim(Slice(line, 2))) IN
                  IF body # <<>> /\ body[Len(body)].type = "list"
                  THEN [st EXCEPT !.current =
                          << [current EXCEPT !.body[Len(body)].items = Append(@, bullet)] >>]
                  ELSE [st EXCEPT !.current =
                          << [current EXCEPT !.body =
                                Append(@, [type |-> "list", items |-> << bullet >>])] >>]
             ELSE [st EXCEPT !.current =
                     << [current EXCEPT !.body =
                           Append(@, [type |-> "paragraph", text |-> inlineClean(line)])] >>]

RECURSIVE ParseLines(_, _)
ParseLines(st, lines) ==
    IF lines = <<>> THEN st ELSE ParseLines(ParseLine(st, Head(lines)), Tail(lines))

\* const parseAssistantSections = (markdown = '') => { ... return sections; }
parseAssistantSections(md) ==
    PushCurrent(ParseLines([sections |-> <<>>, current |-> <<>>], SplitLines(md)))

\* The content of a message grows by a line and renderAssistantMessage parses it.
AppendMarkdownLine(line) ==
    /\ (IF markdown = <<>> THEN 0 ELSE Len(SplitLines(markdown))) < MaxMdLines
    /\ markdown' = (IF markdown = <<>> THEN line ELSE markdown \o <<"LF">> \o line)
    /\ sections' = parseAssistantSections(markdown')
    /\ UNCHANGED << root, input, messages, isLoading, streamingAssistantIndex, pending, pc,
                    streamVars, caught, lastSubmit, requests, traffic >>

NextParse == \E line \in MarkdownLines : AppendMarkdownLine(line)

InitParse == Init /\ root = "concurrent"

SpecParse == InitParse /\ [][NextParse]_vars

\* ------------------------------------------------- vocabulary of the claims
\* The last request has run to its end and everything it queued is rendered.
Completed == requests > 0 /\ pc = "idle" /\ pending = <<>>

\* The assistant message of the last request.
RequestMessage == messages[Len(messages)]

\* The deltas of the answer_chunk events among lines, in order.
RECURSIVE Deltas(_)
Deltas(lines) ==
    IF lines = <<>> THEN <<>>
    ELSE LET event == JSONParse(Head(lines)) IN
         (IF event.kind = "object" /\ event.type = "answer_chunk"
          THEN << event.delta >> ELSE << >>) \o Deltas(Tail(lines))

\* A line that is not JSON, or JSON without a type field (null included).
Malformed(line) ==
    /\ line # <<>>
    /\ LET event == JSONParse(line)
       IN  event.kind \in {"SyntaxError", "null"} \/ event.type = "undefined"

\* A line after which the dispatcher handles no further line: an error event,
\* or a line on which it throws.
StopsDispatch(line) ==
    /\ line # <<>>
    /\ LET event == JSONParse(line)
       IN  event.kind = "null" \/ (event.kind = "object" /\ event.type = "error")

RECURSIVE UpToStop(_)
UpToStop(lines) ==
    IF lines = <<>> THEN <<>>
    ELSE IF StopsDispatch(Head(lines)) THEN << Head(lines) >>
    ELSE << Head(lines) >> \o UpToStop(Tail(lines))

TrimAll(lines) == [i \in 1..Len(lines) |-> Trim(lines[i])]

\* The lines of a text: every terminated line, then the rest if it is not blank.
LinesOf(text, withRest) ==
    LET segments == SplitLines(text)
        terminated == TrimAll(SubSeq(segments, 1, Len(segments) - 1))
        rest == Trim(segments[Len(segments)])
    IN  IF withRest /\ rest # <<>> THEN Append(terminated, rest) ELSE terminated

\* The text of the first n bytes of the wire, decoded in one piece.
Received(n) == DecodeFrom(FALSE, SubSeq(wire, 1, n)).text

\* The transport failed: the catch block caught something other than an
\* exception of the dispatcher.
TransportFailed == caught \notin {NoError, <<"TypeError">>}

\* ------------------------------------------------------------------ claims

\* C1: once a request in which an error event with message m was processed has
\* completed, its assistant message has content exactly m and no references,
\* whatever came before or after the event in the stream.
C1_ErrorMessageIsFinal ==
    (Completed /\ receivedError) =>
        /\ RequestMessage.content = <<"m">>
        /\ RequestMessage.references = <<>>

\* C2: the ref names no message, or it names the last message of the
\* conversation and that message is an assistant message.
C2_ActiveIsLastAssistant ==
    \/ streamingAssistantIndex = -1
    \/ /\ streamingAssistantIndex = Len(messages) - 1
       /\ messages[Len(messages)].role = "assistant"

\* C2 witness: the assistant message of a second request is active and being streamed.
C2_Witness ==
    /\ streamingAssistantIndex = 4
    /\ pc = "read"
    /\ pos > 0

\* C3: a call of sendMessage while a request is in flight returns at the
\* isLoading guard and changes nothing, and a request is only ever issued by a
\* call made while nothing is loading (no attempt is kept for later).
C3_BusySubmitIsNoOp ==
    [][ /\ (pc # "idle" /\ lastSubmit' # lastSubmit) =>
              /\ lastSubmit' = "busy"
              /\ UNCHANGED << messages, streamingAssistantIndex, requests, pending,
                              pc, isLoading, input, streamVars >>
        /\ (requests' # requests) =>
              /\ ~isLoading /\ pc = "idle"
              /\ lastSubmit' = "accepted"
              /\ Trim(input) # <<>>
      ]_vars

\* C3 witness: a submission was refused while the stream of a request was being read.
C3_Witness ==
    /\ lastSubmit = "busy"
    /\ pc = "read"
    /\ pos > 0
    /\ Len(messages) = 3

\* C4: when a request completes normally, with no error event and at least one
\* answer_chunk, the content is the concatenation of all deltas in arrival order.
C4_ContentIsConcatenation ==
    (Completed /\ caught = NoError /\ ~receivedError /\ receivedChunk) =>
        RequestMessage.content = Flatten(Deltas(delivered))

\* C5: when a request completes normally with no answer_chunk and no error
\* event, the content is the fixed fallback text.
C5_EmptyResultFallback ==
    (Completed /\ caught = NoError /\ ~receivedError /\ ~receivedChunk) =>
        RequestMessage.content = NO_RESULT_TEXT

\* C6: a pass of the read loop that hands only malformed lines to the
\* dispatcher changes no message, queues no update, raises no failure and
\* leaves the loop reading.
C6_MalformedLinesIgnored ==
    [][ ( /\ pc = "read"
          /\ pos' > pos
          /\ Len(delivered') > Len(delivered)
          /\ \A i \in (Len(delivered) + 1)..Len(delivered') : Malformed(delivered'[i]) )
        => ( /\ messages' = messages
             /\ pending' = pending
             /\ caught' = NoError
             /\ pc' = "read" )
      ]_vars

\* C7: after a non-success response with a non-empty body, the body text is
\* the content of the request's assistant message.
C7_ErrorBodySurfaced ==
    (Completed /\ caught \in (ErrorBodies \ {<<>>})) =>
        RequestMessage.content = caught

\* C8: after a transport failure the content is the fixed failure text, which
\* is none of the texts an error event produces.
C8_TransportFailureText ==
    (Completed /\ TransportFailed) =>
        /\ RequestMessage.content = SEARCH_FAILED_TEXT
        /\ SEARCH_FAILED_TEXT \notin {<<"m">>, DEFAULT_ERROR_TEXT}

\* C9 as claimed: when a request completes without a caught failure, the
\* dispatcher was handed every line of the stream, the unterminated rest
\* included, in order.
C9_EveryLineDelivered ==
    (requests > 0 /\ pc = "idle" /\ caught = NoError) =>
        delivered = LinesOf(Received(Len(wire)), TRUE)

\* The stream ended (read() returned done) and sendMessage went on to the rest.
EndedByDone ==
    /\ requests > 0 /\ pc = "idle"
    /\ ~cancelled
    /\ pos = Len(wire)
    /\ caught \in {NoError, <<"TypeError">>}

\* C9 amended: up to and including the first line that stops the dispatcher,
\* the lines handed to it are the lines of the bytes received so far, which
\* depends on the bytes alone and not on how they were split into chunks; the
\* unterminated rest is handed over as one last line when the stream ends.
C9_LinesUpToStop ==
    UpToStop(delivered) = UpToStop(LinesOf(Received(pos), EndedByDone))

\* C9 witness: a stream of two lines ended, the second one unterminated and
\* holding a multi-byte character, and both were handed over whole.
C9_Witness ==
    /\ EndedByDone /\ caught = NoError
    /\ Len(delivered) = 2
    /\ delivered[2] = <<"c", "U+00E9">>
    /\ Trim(buffer) # <<>>

\* C10 as claimed: once an error event has been processed the byte source has
\* been cancelled.
C10_ErrorCancelsSource ==
    receivedError => cancelled

\* C10 amended: once an error event has been processed no read is outstanding
\* or issued for that request, and the byte source has been cancelled unless
\* the event was the unterminated last line, processed after the stream ended.
C10_NoReadAfterError ==
    receivedError =>
        /\ pc \in {"cancel", "idle"}
        /\ cancelled \/ (pc = "idle" /\ pos = Len(wire) /\ Trim(buffer) = <<"e", "m">>)

\* C10 witness: an error event arrived while bytes were still to come, the
\* source was cancelled and the request ended without reading them.
C10_Witness ==
    /\ receivedError /\ cancelled
    /\ pc = "idle"
    /\ pos < Len(wire)

\* The list of the last references event among lines, or the empty list.
RECURSIVE LastReferences(_)
LastReferences(lines) ==
    IF lines = <<>> THEN <<>>
    ELSE LET event == JSONParse(lines[Len(lines)]) IN
         IF event.kind = "object" /\ event.type = "references"
         THEN event.references
         ELSE LastReferences(SubSeq(lines, 1, Len(lines) - 1))

\* C11: when a request completes normally, with no error event and at least
\* one answer_chunk, the reference list of its message is the list of the last
\* references event, or empty if there was none.
C11_LastReferencesWin ==
    (Completed /\ caught = NoError /\ ~receivedError /\ receivedChunk) =>
        RequestMessage.references = LastReferences(delivered)

\* The conversation with every queued update applied: what the next render shows.
Conversation == RenderQueue(pending, messages, isLoading).messages

\* C12: every step keeps every message but the active one as it is, and removes
\* or reorders none; once no message is active nothing but an append changes
\* the conversation.
C12_AppendOnlyButActive ==
    [][ /\ Len(Conversation') >= Len(Conversation)
        /\ \A i \in 1..Len(Conversation) :
              (i - 1 # streamingAssistantIndex) => Conversation'[i] = Conversation[i]
        /\ Len(messages') >= Len(messages)
        /\ \A i \in 1..(Len(messages) - 1) : messages'[i] = messages[i]
        /\ (requests = 0 \/ Completed) => SubSeq(messages', 1, Len(messages)) = messages
      ]_vars

\* C12 witness: in a second request the active message has been patched while
\* the messages of the first request are still in the conversation.
C12_Witness ==
    /\ Len(Conversation) = 5
    /\ streamingAssistantIndex = 4
    /\ Conversation[5].content # STREAMING_PLACEHOLDER

\* C13: whenever a request is loading, however its transport resolves, the
\* loading flag eventually is false and the ref is -1 with sendMessage at its
\* end, so that the next submission is not refused as busy.
C13_InputReenabled ==
    isLoading ~> (~isLoading /\ streamingAssistantIndex = -1 /\ pc = "idle" /\ ~Busy)

\* C13 witness: after a request ended with the empty-result text the next
\* submission was accepted.
C13_Witness ==
    /\ requests = 2
    /\ lastSubmit = "accepted"
    /\ isLoading
    /\ messages[3].content = NO_RESULT_TEXT

\* C14: when sendMessage has run to its end the ref is reset, and a request is
\* only started when the one before has ended and nothing it queued is still
\* to be rendered, so nothing of a request can touch the message of a later one.
C14_NoStaleTarget ==
    [][ /\ (pc' = "idle") => (streamingAssistantIndex' = -1)
        /\ (requests' # requests) =>
              /\ pc = "idle"
              /\ pending = <<>>
              /\ streamingAssistantIndex = -1
      ]_vars

\* C14 witness: a second request was started after the first one ended in a failure.
C14_Witness ==
    /\ requests = 2
    /\ pc = "fetch"
    /\ messages[3].content = SEARCH_FAILED_TEXT

\* The queued updates applied to the message that was active when they were queued.
RECURSIVE ApplyIssued(_, _)
ApplyIssued(queue, msgs) ==
    IF queue = <<>> THEN msgs
    ELSE LET u == Head(queue) IN
         CASE u.kind = "eager" -> ApplyIssued(Tail(queue), u.state)
           [] u.kind = "loading" -> ApplyIssued(Tail(queue), msgs)
           [] OTHER -> ApplyIssued(Tail(queue), RunUpdater(u, msgs, Len(msgs) - 1))

\* C17: a render applies every queued patch to the request's assistant message.
C17_NoPatchLost ==
    [][ (pending # <<>> /\ pending' = <<>>) => messages' = ApplyIssued(pending, messages) ]_vars

\* C18: once a request has completed, the content of its message is not the placeholder.
C18_PlaceholderReplaced ==
    Completed => RequestMessage.content # STREAMING_PLACEHOLDER

\* A text without a character that is not whitespace.
IsBlank(s) == \A i \in 1..Len(s) : IsWhitespace(s[i])

\* C19: the conversation is the greeting followed by one (user, assistant) pair
\* per accepted submission; an accepted submission appends the trimmed input
\* as a user message and then one assistant message.
C19_GreetingThenPairs ==
    [][ /\ Len(messages') = 1 + 2 * requests'
        /\ messages'[1].role = "assistant" /\ messages'[1].content = GREETING
        /\ \A i \in 2..Len(messages') :
              messages'[i].role = (IF i % 2 = 0 THEN "user" ELSE "assistant")
        /\ \A i \in 2..Len(messages') :
              (i % 2 = 0) =>
                  LET c == messages'[i].content
                  IN  c # <<>> /\ ~IsWhitespace(c[1]) /\ ~IsWhitespace(c[Len(c)])
        /\ (requests' # requests) =>
              /\ requests' = requests + 1
              /\ Len(messages') = Len(messages) + 2
              /\ SubSeq(messages', 1, Len(messages)) = messages
              /\ messages'[Len(messages) + 1] = [role |-> "user", content |-> <<"q">>]
              /\ input = <<"SP", "q", "SP">>
              /\ messages'[Len(messages) + 2].role = "assistant"
      ]_vars

\* C19 witness: two submissions were accepted.
C19_Witness ==
    /\ requests = 2
    /\ Len(messages) = 5
    /\ messages[4] = [role |-> "user", content |-> <<"q">>]

\* C20: a call of sendMessage with a blank input while nothing is loading
\* returns without any effect.
C20_BlankSubmitIsNoOp ==
    [][ (~isLoading /\ IsBlank(input) /\ lastSubmit' # lastSubmit) =>
            /\ lastSubmit' = "empty"
            /\ UNCHANGED << messages, isLoading, streamingAssistantIndex, pending, pc,
                            input, requests, traffic, streamVars, caught >>
      ]_vars

\* C20 witness: a whitespace-only input was submitted and refused.
C20_Witness ==
    /\ lastSubmit = "empty"
    /\ input = <<"SP">>

\* The example content of the display contract.
ExampleContent ==
    JoinLines(<< SummaryHeading, PointOne, PointTwo, ReferencesHeading, ReferenceEntry >>, FALSE)

\* C15: the example content parses to the one section "Summary" with one list
\* of two items, and nothing is made of the References heading or the lines under it.
C15_NoReferencesSection ==
    (markdown = ExampleContent) =>
        sections = << [heading |-> <<"Summary">>,
                       body |-> << [type |-> "list",
                                    items |-> << <<"point one">>, <<"point two">> >>] >>] >>

\* The lines of a block: a list item as a "- " line, a paragraph as its text.
BlockLines(block) ==
    IF block.type = "list"
    THEN [i \in 1..Len(block.items) |-> <<"-", "SP">> \o block.items[i]]
    ELSE << block.text >>

RECURSIVE BodyLines(_)
BodyLines(body) ==
    IF body = <<>> THEN <<>> ELSE BlockLines(Head(body)) \o BodyLines(Tail(body))

\* The sections written back as text: a heading as a "## " line (none for a
\* section without heading), then the lines of its blocks.
RECURSIVE Serialize(_)
Serialize(ss) ==
    IF ss = <<>> THEN <<>>
    ELSE LET section == Head(ss)
             head == IF section.heading = <<>> THEN <<>>
                     ELSE << <<"##", "SP">> \o section.heading >>
         IN  head \o BodyLines(section.body) \o Serialize(Tail(ss))

\* C16: parsing the sections written back as text gives the same sections.
C16_ParseIsIdempotent ==
    parseAssistantSections(JoinLines(Serialize(sections), FALSE)) = sections

====
